---- MODULE Spec2Model ----
(***************************************************************************)
(* Model of the StatArb script strategy (src/statarb.py): the tick-driven  *)
(* position state machine of StatArb.on_tick and the order dispatch it     *)
(* performs through ScriptStrategyBase.buy / ScriptStrategyBase.sell.      *)
(*                                                                         *)
(* Collaborators that are not part of the repository (candle feeds, rate   *)
(* oracle, connector, order submission) are inputs of a tick: each tick    *)
(* draws what they return from a small set.  The data frame returned by    *)
(* calculate_spread_and_zscore enters a tick as None or as the z-score of  *)
(* its last row.                                                           *)
(*                                                                         *)
(* Under Spec the frame is an input of on_tick, drawn from all float       *)
(* values a z-score can have.  Under SpecFeed and SpecAlign the two        *)
(* candle frames are part of the state and the frame is computed from      *)
(* them by calculate_spread_and_zscore (merge, spread, rolling mean,       *)
(* rolling std, z-score) in exact arithmetic.                              *)
(***************************************************************************)
EXTENDS Integers, Sequences, FiniteSets, TLC

VARIABLES
    entry_threshold,  \* StatArb.entry_threshold
    exit_threshold,   \* StatArb.exit_threshold
    sl_threshold,     \* StatArb.sl_threshold
    position_open,    \* StatArb.position_open
    long_order_id,    \* StatArb.long_order_id
    short_order_id,   \* StatArb.short_order_id
    pc,               \* life cycle of the strategy object: "new", "running", "stopped"
    last,             \* what the most recent on_tick read, decided and did
    open_count,       \* history: per leg, the open orders accepted since the leg's last close order
    opened,           \* history: the references returned by the dispatch that opened the latest position
    earlier,          \* history: per leg, the latest reference recorded for a position opened before that one
    scenario_step,    \* history: how many of the latest ticks fed 1.5, 2.0, -0.5 in this order
    hedge_ratio,      \* StatArb.hedge_ratio, in tenths
    zscore_length,    \* StatArb.zscore_length
    spread_length,    \* StatArb.spread_length
    candles_1,        \* StatArb.candles_1.candles_df: rows [timestamp, close]
    candles_2,        \* StatArb.candles_2.candles_df: rows [timestamp, close]
    df,               \* history: what the latest call of calculate_spread_and_zscore on the
                      \* present candle frames returned
    frame             \* history: the locals of that call (merged frame, rolling_mean, rolling_std)

vars == <<entry_threshold, exit_threshold, sl_threshold, position_open,
          long_order_id, short_order_id, pc, last, open_count, opened, earlier,
          scenario_step, hedge_ratio, zscore_length, spread_length, candles_1,
          candles_2, df, frame>>

\* the class attributes that calculate_spread_and_zscore reads
calc_config == <<hedge_ratio, zscore_length, spread_length>>

\* the position state and the stored order references
position_state == <<position_open, long_order_id, short_order_id>>

\* the price history of the two feeds
feed == <<candles_1, candles_2>>

----------------------------------------------------------------------------
(* Bounds *)

\* on_tick is not taken once a leg has this many open orders and no close order
MaxLayers == 2

\* finite z-scores are the multiples of 1/2 in -ZNeg/2 .. ZMax/2
ZNeg == 1

ZMax == 7

\* the candle feed adds no row to a frame that has this many rows
MaxRows == 4

\* the candle frames a strategy of SpecAlign starts on have at most this many rows
MaxAlignRows == 2

----------------------------------------------------------------------------
(* Values *)

\* Python None; an optional value is None or a one-element tuple
None == <<>>

\* a value that the tick did not get to read
Unread == <<"unread">>

\* a Decimal returned by the rate oracle or the connector (its magnitude
\* decides no branch of on_tick; only whether it is None does)
SomeDecimal == <<"decimal">>

MarketValue == {None, SomeDecimal}

\* an order id returned by buy()/sell(): a non-empty string (on_tick only
\* tests whether it is set)
OrderId == <<"order_id">>

\* float64 values of df["z_score"].iloc[-1]: NaN, -inf, +inf, or n / 2
NaN == [k |-> "nan", n |-> 0]

PosInf == [k |-> "inf", n |-> 1]

NegInf == [k |-> "inf", n |-> -1]

Fin(n) == [k |-> "fin", n |-> n]

NoZ == [k |-> "unread", n |-> 0]

ZScores == {NaN, PosInf, NegInf} \cup {Fin(n) : n \in (0 - ZNeg)..ZMax}

\* a z-score computed from a window: n * sqrt(p / q) with n in {-1, 0, 1},
\* p >= 0 and q > 0 (the square of the z-score is the rational p / q)
Root(n, p, q) == [k |-> "root", n |-> n, p |-> p, q |-> q]

\* n * sqrt(p / q) > t
RootGT(z, t) ==
    IF t >= 0
    THEN z.n > 0 /\ z.p > t * t * z.q
    ELSE z.n >= 0 \/ z.p < t * t * z.q

\* n * sqrt(p / q) < t
RootLT(z, t) ==
    IF t <= 0
    THEN z.n < 0 /\ z.p > t * t * z.q
    ELSE z.n <= 0 \/ z.p < t * t * z.q

\* float comparison  z > t  for an integer threshold t (False for NaN)
FloatGT(z, t) ==
    CASE z.k = "nan" -> FALSE
      [] z.k = "inf" -> z.n > 0
      [] z.k = "fin" -> z.n > 2 * t
      [] z.k = "root" -> RootGT(z, t)
      [] OTHER -> FALSE

\* variant: a null z-score compares as zero
FloatLT_NullAsZero(z, t) ==
    CASE z.k = "nan" -> 0 < 2 * t
      [] z.k = "inf" -> z.n < 0
      [] z.k = "fin" -> z.n < 2 * t
      [] z.k = "root" -> RootLT(z, t)
      [] OTHER -> FALSE

\* float comparison  z < t  for an integer threshold t (False for NaN)
FloatLT(z, t) ==
    CASE z.k = "nan" -> FALSE
      [] z.k = "inf" -> z.n < 0
      [] z.k = "fin" -> z.n < 2 * t
      [] z.k = "root" -> RootLT(z, t)
      [] OTHER -> FALSE

\* the threshold configurations a strategy is constructed with: the values
\* of the source, another well-formed triple, and triples that are malformed
DefaultThresholds == [entry |-> 1, exit |-> 0, sl |-> 3]

ThresholdConfigs ==
    { DefaultThresholds,
      [entry |-> 2, exit |-> 1, sl |-> 3],
      [entry |-> 1, exit |-> 2, sl |-> 3],
      [entry |-> 3, exit |-> 0, sl |-> 3] }

\* what a call of buy()/sell() can do: return an order id, return nothing
\* usable (None), or raise
SubmitOutcomes == {"ok", "fail", "raise"}

\* the value of a call of buy()/sell() that does o
Returned(o) == IF o = "ok" THEN OrderId ELSE None

\* the record of one buy()/sell() call; ref is the order reference on_tick
\* kept from it: None when the call returned None or raised, and for the
\* calls whose value on_tick drops (position_action CLOSE)
Order(pair, side, action, o, ref) ==
    [pair |-> pair, side |-> side, position_action |-> action,
     outcome |-> IF o = "raise" THEN "raised" ELSE "returned",
     ref |-> ref]

\* the record of a tick
TickRecord(kind, ready, z, cr, mp, decision, sub) ==
    [kind |-> kind, was_open |-> position_open, ready |-> ready, zscore |-> z,
     cr1 |-> cr[1], cr2 |-> cr[2], mp1 |-> mp[1], mp2 |-> mp[2],
     decision |-> decision, submitted |-> sub]

NotRead == <<Unread, Unread>>

\* df before calculate_spread_and_zscore was called on the present candle
\* frames
NotCalled == <<"not called">>

\* frame before that: no rows
NoFrame == [merged |-> <<>>, rolling_mean |-> <<>>, rolling_std |-> <<>>]

\* a row of candles_df[['timestamp', 'close']]: timestamp in seconds
Candle(t, c) == [timestamp |-> t, close |-> c]

\* the close prices a candle of leg 1 / leg 2 can have
Closes1 == {10, 13}

Closes2 == {10}

\* hedge_ratio in tenths: 3 is the 0.3 of the source
HedgeRatios == {3, 10}

\* (zscore_length, spread_length): the source has (200, 250); the frames of
\* the model have a few rows, so the lengths are scaled down, spread_length
\* staying above zscore_length
LengthConfigs ==
    { [zscore_length |-> 2, spread_length |-> 3],
      [zscore_length |-> 3, spread_length |-> 4] }

\* the timestamps of the candle frames a strategy of SpecAlign starts on
Timestamps == {1, 2, 3}

\* the frames with at most n rows, timestamps in any order and repeated or
\* not, every close being c
RawFrames(n, c) ==
    UNION { [1..k -> {Candle(t, c) : t \in Timestamps}] : k \in 0..n }

----------------------------------------------------------------------------
(* Initial state: the class attributes, before the object is constructed *)

\* position_open, long_order_id, short_order_id as the class defines them,
\* and no tick yet
NoTickYet ==
    /\ position_open = FALSE
    /\ long_order_id = None
    /\ short_order_id = None
    /\ last = [kind |-> "init", was_open |-> FALSE, ready |-> <<FALSE, FALSE>>,
               zscore |-> NoZ, cr1 |-> Unread, cr2 |-> Unread, mp1 |-> Unread,
               mp2 |-> Unread, decision |-> "NONE", submitted |-> <<>>]
    /\ open_count = <<0, 0>>
    /\ opened = <<None, None>>
    /\ earlier = <<None, None>>
    /\ scenario_step = 0
    /\ df = NotCalled
    /\ frame = NoFrame

\* the frame is an input of on_tick: the candle frames stay empty
Init ==
    /\ \E c \in ThresholdConfigs :
          /\ entry_threshold = c.entry
          /\ exit_threshold = c.exit
          /\ sl_threshold = c.sl
    /\ NoTickYet
    /\ pc = "new"
    /\ hedge_ratio = 3
    /\ zscore_length = 200
    /\ spread_length = zscore_length + 50
    /\ candles_1 = <<>>
    /\ candles_2 = <<>>

\* the candle feeds have delivered nothing yet
InitFeed ==
    /\ entry_threshold = DefaultThresholds.entry
    /\ exit_threshold = DefaultThresholds.exit
    /\ sl_threshold = DefaultThresholds.sl
    /\ NoTickYet
    /\ pc = "new"
    /\ hedge_ratio \in HedgeRatios
    /\ \E c \in LengthConfigs :
          /\ zscore_length = c.zscore_length
          /\ spread_length = c.spread_length
    /\ candles_1 = <<>>
    /\ candles_2 = <<>>

\* a strategy on any two candle frames: timestamps unsorted, repeated,
\* present in one frame only
InitAlign ==
    /\ entry_threshold = DefaultThresholds.entry
    /\ exit_threshold = DefaultThresholds.exit
    /\ sl_threshold = DefaultThresholds.sl
    /\ NoTickYet
    /\ pc = "new"
    /\ hedge_ratio = 3
    /\ zscore_length = 1
    /\ spread_length = zscore_length + 1
    /\ candles_1 \in RawFrames(MaxAlignRows, 13)
    /\ candles_2 \in RawFrames(MaxAlignRows, 10)

----------------------------------------------------------------------------
(* StatArb.__init__: starts the two candle feeds; it validates nothing *)

StatArb_init ==
    /\ pc = "new"
    /\ pc' = "running"
    /\ UNCHANGED <<entry_threshold, exit_threshold, sl_threshold, position_open,
                   long_order_id, short_order_id, last, open_count, opened, earlier,
                   scenario_step, calc_config, feed, df, frame>>

----------------------------------------------------------------------------
(* StatArb.calculate_spread_and_zscore, in exact arithmetic *)

\* pd.to_datetime(t, unit='s'): the datetime t seconds after the epoch
ToDatetime(t) == <<"datetime64", t>>

\* the rows of df2 whose timestamp is that of r1, joined to r1, in the order of df2
RECURSIVE JoinRow(_, _)
JoinRow(r1, df2) ==
    IF df2 = <<>> THEN <<>>
    ELSE (IF Head(df2).timestamp = r1.timestamp
          THEN <<[timestamp |-> r1.timestamp, close_1 |-> r1.close,
                  close_2 |-> Head(df2).close]>>
          ELSE <<>>) \o JoinRow(r1, Tail(df2))

\* variant: the rows are joined by position, the timestamps of df2 unread
RECURSIVE Merge_ByPosition(_, _)
Merge_ByPosition(df1, df2) ==
    IF df1 = <<>> \/ df2 = <<>> THEN <<>>
    ELSE <<[timestamp |-> Head(df1).timestamp, close_1 |-> Head(df1).close,
            close_2 |-> Head(df2).close]>> \o Merge_ByPosition(Tail(df1), Tail(df2))

\* variant: the rows come in the order of the keys of df2
RECURSIVE Merge_RightOrder(_, _)
Merge_RightOrder(df1, df2) ==
    IF df2 = <<>> THEN <<>>
    ELSE LET r2 == Head(df2)
             hit(r1) == r1.timestamp = r2.timestamp
             left == SelectSeq(df1, hit)
         IN  [i \in 1..Len(left) |->
                 [timestamp |-> r2.timestamp, close_1 |-> left[i].close,
                  close_2 |-> r2.close]] \o Merge_RightOrder(df1, Tail(df2))

\* pd.merge(df1, df2, on="timestamp"): inner join; one row for every pair of
\* a row of df1 and a row of df2 with the same timestamp, in the order of the
\* keys of df1 (nothing is sorted)
RECURSIVE Merge(_, _)
Merge(df1, df2) ==
    IF df1 = <<>> THEN <<>>
    ELSE JoinRow(Head(df1), df2) \o Merge(Tail(df1), df2)

\* variant: one row more than spread_length is asked for
EnoughRows_Strict(m) == Len(m) > spread_length

\* len(df) >= self.spread_length
EnoughRows(m) == Len(m) >= spread_length

\* close_1 - close_2 * hedge_ratio, in tenths
Spread(row) == 10 * row.close_1 - row.close_2 * hedge_ratio

RECURSIVE SeqSum(_)
SeqSum(x) == IF x = <<>> THEN 0 ELSE Head(x) + SeqSum(Tail(x))

\* variant: an expanding window, all values up to row i
Window_Expanding(x, i) == SubSeq(x, 1, i)

\* variant: a window that reaches one row ahead of row i
Window_Ahead(x, i) ==
    SubSeq(x, i - zscore_length + 2, IF i < Len(x) THEN i + 1 ELSE i)

\* the values rolling(window=zscore_length) takes at row i: the
\* zscore_length values that end at row i
Window(x, i) == SubSeq(x, i - zscore_length + 1, i)

\* NaN as a rolling statistic
NullStat == [k |-> "nan", num |-> 0, den |-> 1]

\* rolling(window=zscore_length).mean() of the column x: NaN while the window
\* is short (min_periods is the window), then the rational num / den
RollingMean(x) ==
    [i \in 1..Len(x) |->
        IF i < zscore_length THEN NullStat
        ELSE [k |-> "val", num |-> SeqSum(Window(x, i)), den |-> zscore_length]]

\* rolling(window=zscore_length).std() of the column x, the sample standard
\* deviation (ddof = 1): NaN while the window is short or has one value, then
\* sqrt(num / den) with num / den = (n * sum(v^2) - sum(v)^2) / (n * (n - 1))
RollingStd(x) ==
    [i \in 1..Len(x) |->
        IF i < zscore_length \/ zscore_length < 2 THEN NullStat
        ELSE LET w == Window(x, i)
                 sq == [j \in 1..Len(w) |-> w[j] * w[j]]
             IN  [k |-> "val",
                  num |-> zscore_length * SeqSum(sq) - SeqSum(w) * SeqSum(w),
                  den |-> zscore_length * (zscore_length - 1)]]

\* variant: a zero standard deviation gives the z-score 0
ZScoreOf_ZeroStdAsZero(x, m, sd) ==
    IF m.k = "nan" \/ sd.k = "nan" THEN NaN
    ELSE LET a == x * m.den - m.num
         IN  IF sd.num = 0 THEN Fin(0)
             ELSE Root(IF a > 0 THEN 1 ELSE IF a < 0 THEN 0 - 1 ELSE 0,
                       a * a * sd.den, m.den * m.den * sd.num)

\* (x - m) / sd as float division: NaN if an operand is NaN, 0 / 0 is NaN,
\* a / 0 is +inf or -inf, else sign(a) * sqrt(a^2 * sd.den / (m.den^2 * sd.num))
\* where a / m.den = x - m
ZScoreOf(x, m, sd) ==
    IF m.k = "nan" \/ sd.k = "nan" THEN NaN
    ELSE LET a == x * m.den - m.num
         IN  IF sd.num = 0
             THEN (IF a = 0 THEN NaN ELSE IF a > 0 THEN PosInf ELSE NegInf)
             ELSE Root(IF a > 0 THEN 1 ELSE IF a < 0 THEN 0 - 1 ELSE 0,
                       a * a * sd.den, m.den * m.den * sd.num)

\* variant: df1 is the candle frame itself, and the call trims it to its
\* last spread_length rows
CandlesAfter_Trimmed(c) ==
    IF Len(c) > spread_length THEN SubSeq(c, Len(c) - spread_length + 1, Len(c)) ELSE c

\* candles_df after the call: df1 and df2 are copies, the call writes to them
\* and to the merged frame only
CandlesAfter(c) == c

\* the call on the candle frames c1, c2: what it returns (df: None or the
\* rows), its locals (frame) and the candle frames after it
calculate_spread_and_zscore(c1, c2) ==
    LET merged == Merge(c1, c2)
        spread == [i \in 1..Len(merged) |-> Spread(merged[i])]
        rolling_mean == RollingMean(spread)
        rolling_std == RollingStd(spread)
        rows == [i \in 1..Len(merged) |->
                    [timestamp |-> ToDatetime(merged[i].timestamp),
                     close_1 |-> merged[i].close_1,
                     close_2 |-> merged[i].close_2,
                     spread |-> spread[i],
                     z_score |-> ZScoreOf(spread[i], rolling_mean[i], rolling_std[i])]]
    IN  IF EnoughRows(merged)
        THEN [df |-> rows,
              frame |-> [merged |-> merged, rolling_mean |-> rolling_mean,
                         rolling_std |-> rolling_std],
              candles_1 |-> CandlesAfter(c1), candles_2 |-> CandlesAfter(c2)]
        ELSE [df |-> None,
              frame |-> [merged |-> merged, rolling_mean |-> <<>>,
                         rolling_std |-> <<>>],
              candles_1 |-> c1, candles_2 |-> c2]

----------------------------------------------------------------------------
(* StatArb.on_tick *)

\* variant: the entry band has no upper bound
OpenCondition_NoStopLoss(z) ==
    /\ FloatGT(z, entry_threshold)
    /\ ~position_open

\* variant: the lower bound of the entry band is not strict
OpenCondition_NonStrictEntry(z) ==
    /\ ~FloatLT(z, entry_threshold)
    /\ z.k # "nan"
    /\ FloatLT(z, sl_threshold)
    /\ ~position_open

\* the condition of the if: open long leg 1 / short leg 2
OpenCondition(z) ==
    /\ FloatGT(z, entry_threshold)
    /\ FloatLT(z, sl_threshold)
    /\ ~position_open

\* variant: closes on reversion below exit_threshold only
CloseCondition_ExitOnly(z) ==
    /\ FloatLT(z, exit_threshold)
    /\ position_open

\* variant: closes above sl_threshold, not above entry_threshold
CloseCondition_AboveSl(z) ==
    /\ FloatLT(z, exit_threshold) \/ FloatGT(z, sl_threshold)
    /\ position_open

\* the condition of the elif: close both legs
CloseCondition(z) ==
    /\ FloatLT(z, exit_threshold) \/ FloatGT(z, entry_threshold)
    /\ position_open

\* variant: a reference is stored only when the call returned one
OpenDispatch_KeepStale(o1, o2) ==
    LET ret1 == Returned(o1)
        ret2 == Returned(o2)
        b == Order(1, "buy", "OPEN", o1, ret1)
        s == Order(2, "sell", "OPEN", o2, ret2)
        keep1 == IF ret1 # None THEN ret1 ELSE long_order_id
        keep2 == IF ret2 # None THEN ret2 ELSE short_order_id
    IN  IF o1 = "raise"
        THEN [long |-> long_order_id, short |-> short_order_id,
              open |-> position_open, sub |-> <<b>>, raised |-> TRUE]
        ELSE IF o2 = "raise"
        THEN [long |-> keep1, short |-> short_order_id,
              open |-> position_open, sub |-> <<b, s>>, raised |-> TRUE]
        ELSE [long |-> keep1, short |-> keep2,
              open |-> TRUE, sub |-> <<b, s>>, raised |-> FALSE]

\* the body of the if; o1, o2 are what buy() and sell() do
OpenDispatch(o1, o2) ==
    LET ret1 == Returned(o1)
        ret2 == Returned(o2)
        b == Order(1, "buy", "OPEN", o1, ret1)
        s == Order(2, "sell", "OPEN", o2, ret2)
    IN  IF o1 = "raise"
        THEN [long |-> long_order_id, short |-> short_order_id,
              open |-> position_open, sub |-> <<b>>, raised |-> TRUE]
        ELSE IF o2 = "raise"
        THEN [long |-> ret1, short |-> short_order_id,
              open |-> position_open, sub |-> <<b, s>>, raised |-> TRUE]
        ELSE [long |-> ret1, short |-> ret2,
              open |-> TRUE, sub |-> <<b, s>>, raised |-> FALSE]

\* the body of the elif; o1, o2 are what buy() and sell() do when called
CloseDispatch(o1, o2) ==
    LET sub1 == IF long_order_id # None
                THEN <<Order(1, "buy", "CLOSE", o1, None)>>
                ELSE <<>>
        sub2 == IF short_order_id # None
                THEN <<Order(2, "sell", "CLOSE", o2, None)>>
                ELSE <<>>
    IN  IF long_order_id # None /\ o1 = "raise"
        THEN [long |-> long_order_id, short |-> short_order_id,
              open |-> position_open, sub |-> sub1, raised |-> TRUE]
        ELSE IF short_order_id # None /\ o2 = "raise"
        THEN [long |-> long_order_id, short |-> short_order_id,
              open |-> position_open, sub |-> sub1 \o sub2, raised |-> TRUE]
        ELSE [long |-> long_order_id, short |-> short_order_id,
              open |-> FALSE, sub |-> sub1 \o sub2, raised |-> FALSE]

\* open_count after the calls of sub: an open order that returned a
\* reference adds one to its leg, a close order of a leg resets the leg
RECURSIVE CountAfter(_, _)
CountAfter(cnt, sub) ==
    IF sub = <<>> THEN cnt
    ELSE LET o == Head(sub)
             c == IF o.position_action = "CLOSE" THEN 0
                  ELSE IF o.ref # None THEN cnt[o.pair] + 1
                  ELSE cnt[o.pair]
         IN  CountAfter([cnt EXCEPT ![o.pair] = c], Tail(sub))

\* scenario_step after the tick recorded as r: step 1 is a tick that began
\* FLAT under thresholds (1, 0, 3) and was fed 1.5 = Fin(3), step 2 the next
\* tick fed 2.0 = Fin(4), step 3 the next tick fed -0.5 = Fin(-1); only ticks
\* that reached the if/elif and ran to their end count
ScenarioAfter(r) ==
    LET fed(n) == r.kind = "completed" /\ r.zscore = Fin(n)
    IN  IF scenario_step = 1 /\ fed(4) THEN 2
        ELSE IF scenario_step = 2 /\ fed(0 - 1) THEN 3
        ELSE IF /\ fed(3)
                /\ ~r.was_open
                /\ <<entry_threshold, exit_threshold, sl_threshold>> = <<1, 0, 3>>
        THEN 1
        ELSE 0

\* a tick that ends without reaching the if/elif
TickWithoutDecision(kind, ready, z, cr, mp) ==
    /\ last' = TickRecord(kind, ready, z, cr, mp, "NONE", <<>>)
    /\ scenario_step' = 0
    /\ UNCHANGED <<position_open, long_order_id, short_order_id, open_count,
                   opened, earlier>>

\* a tick that took neither the if nor the elif
TickWithHold(ready, z, cr, mp) ==
    /\ last' = TickRecord("completed", ready, z, cr, mp, "HOLD", <<>>)
    /\ scenario_step' = ScenarioAfter(last')
    /\ UNCHANGED <<position_open, long_order_id, short_order_id, open_count,
                   opened, earlier>>

\* a tick that ran a dispatch d
TickWithDispatch(ready, z, cr, mp, decision, d) ==
    /\ last' = TickRecord(IF d.raised THEN "exception" ELSE "completed",
                          ready, z, cr, mp, decision, d.sub)
    /\ position_open' = d.open
    /\ long_order_id' = d.long
    /\ short_order_id' = d.short
    /\ open_count' = CountAfter(open_count, d.sub)
    /\ opened' = IF ~position_open /\ d.open
                 THEN <<d.sub[1].ref, d.sub[2].ref>>
                 ELSE opened
    /\ earlier' = IF ~position_open /\ d.open
                  THEN <<IF opened[1] # None THEN opened[1] ELSE earlier[1],
                         IF opened[2] # None THEN opened[2] ELSE earlier[2]>>
                  ELSE earlier
    /\ scenario_step' = ScenarioAfter(last')

\* on_tick once all_candles_ready is True and calculate_spread_and_zscore has
\* returned ret: None, or the one-element tuple of df["z_score"].iloc[-1]
TickOnFrame(ready, ret) ==
    IF ret = None
    THEN \* calculate_spread_and_zscore returned None
         TickWithoutDecision("not_enough_data", ready, NoZ, NotRead, NotRead)
    ELSE \E cr \in MarketValue \X MarketValue :
      LET z == ret[1] IN
      IF cr[1] = None \/ cr[2] = None
      THEN \* warning and return, before the mid prices are read
           TickWithoutDecision("warning", ready, z, cr, NotRead)
      ELSE \E mp \in MarketValue \X MarketValue :
        IF mp[1] = None \/ mp[2] = None
        THEN \* None * Decimal(0.99) raises TypeError
             TickWithoutDecision("exception", ready, z, cr, mp)
        ELSE IF OpenCondition(z)
        THEN \E o1, o2 \in SubmitOutcomes :
               TickWithDispatch(ready, z, cr, mp, "OPEN_LONG1_SHORT2",
                                OpenDispatch(o1, o2))
        ELSE IF CloseCondition(z)
        THEN \E o1, o2 \in SubmitOutcomes :
               TickWithDispatch(ready, z, cr, mp, "CLOSE_BOTH",
                                CloseDispatch(o1, o2))
        ELSE TickWithHold(ready, z, cr, mp)

\* on_tick, the frame being an input
on_tick ==
    /\ pc = "running"
    /\ open_count[1] < MaxLayers
    /\ open_count[2] < MaxLayers
    /\ UNCHANGED <<entry_threshold, exit_threshold, sl_threshold, pc, calc_config,
                   feed, df, frame>>
    /\ \E r1, r2 \in BOOLEAN :
         IF ~(r1 /\ r2)
         THEN \* all_candles_ready is False
              TickWithoutDecision("candles_not_ready", <<r1, r2>>, NoZ, NotRead, NotRead)
         ELSE \E ret \in {None} \cup {<<z>> : z \in ZScores} :
                TickOnFrame(<<r1, r2>>, ret)

\* df["z_score"].iloc[-1], for the value ret of calculate_spread_and_zscore
LastZScore(ret) == IF ret = None THEN None ELSE <<ret[Len(ret)].z_score>>

\* on_tick, the frame being computed from the candle frames
on_tick_candles ==
    /\ pc = "running"
    /\ open_count[1] < MaxLayers
    /\ open_count[2] < MaxLayers
    /\ UNCHANGED <<entry_threshold, exit_threshold, sl_threshold, pc, calc_config>>
    /\ \E r1, r2 \in BOOLEAN :
         IF ~(r1 /\ r2)
         THEN \* all_candles_ready is False
              /\ TickWithoutDecision("candles_not_ready", <<r1, r2>>, NoZ, NotRead, NotRead)
              /\ UNCHANGED <<feed, df, frame>>
         ELSE \E call \in {calculate_spread_and_zscore(candles_1, candles_2)} :
                /\ df' = call.df
                /\ frame' = call.frame
                /\ candles_1' = call.candles_1
                /\ candles_2' = call.candles_2
                /\ \E ret \in {LastZScore(call.df)} : TickOnFrame(<<r1, r2>>, ret)

----------------------------------------------------------------------------
(* StatArb.on_stop: stops the two candle feeds *)

on_stop ==
    /\ pc = "running"
    /\ pc' = "stopped"
    /\ UNCHANGED <<entry_threshold, exit_threshold, sl_threshold, position_open,
                   long_order_id, short_order_id, last, open_count, opened, earlier,
                   scenario_step, calc_config, feed, df, frame>>

----------------------------------------------------------------------------
(* StatArb.format_status *)

\* variant: the status display resets the position
format_status_Reset ==
    /\ pc = "running"
    /\ position_open' = FALSE
    /\ long_order_id' = None
    /\ short_order_id' = None
    /\ UNCHANGED <<entry_threshold, exit_threshold, sl_threshold, pc, last,
                   open_count, opened, earlier, scenario_step, calc_config, feed,
                   df, frame>>

\* ready_to_trade and the readiness of the two feeds are inputs; the call is
\* made when all three hold, and its rows are shown if it returned a frame.
\* The text is returned; nothing of the strategy is assigned.
format_status ==
    /\ pc = "running"
    /\ UNCHANGED <<entry_threshold, exit_threshold, sl_threshold, pc, last,
                   position_open, long_order_id, short_order_id, open_count,
                   opened, earlier, scenario_step, calc_config>>
    /\ \E ready_to_trade, r1, r2 \in BOOLEAN :
         IF ready_to_trade /\ r1 /\ r2
         THEN \E call \in {calculate_spread_and_zscore(candles_1, candles_2)} :
                /\ df' = call.df
                /\ frame' = call.frame
                /\ candles_1' = call.candles_1
                /\ candles_2' = call.candles_2
         ELSE UNCHANGED <<feed, df, frame>>

----------------------------------------------------------------------------
(* The candle feeds (CandlesFactory): a feed that runs appends the candle of
   the next interval to its frame *)

NextTimestamp(c) == IF c = <<>> THEN 1 ELSE c[Len(c)].timestamp + 1

candles_update ==
    /\ pc = "running"
    /\ \/ /\ Len(candles_1) < MaxRows
          /\ \E c \in Closes1 :
                candles_1' = Append(candles_1, Candle(NextTimestamp(candles_1), c))
          /\ UNCHANGED candles_2
       \/ /\ Len(candles_2) < MaxRows
          /\ \E c \in Closes2 :
                candles_2' = Append(candles_2, Candle(NextTimestamp(candles_2), c))
          /\ UNCHANGED candles_1
    /\ df' = NotCalled
    /\ frame' = NoFrame
    /\ UNCHANGED <<entry_threshold, exit_threshold, sl_threshold, position_open,
                   long_order_id, short_order_id, pc, last, open_count, opened,
                   earlier, scenario_step, calc_config>>

----------------------------------------------------------------------------

Next == StatArb_init \/ on_tick \/ on_stop

Spec == Init /\ [][Next]_vars

\* the strategy on two running candle feeds
NextFeed ==
    StatArb_init \/ candles_update \/ on_tick_candles \/ format_status \/ on_stop

SpecFeed == InitFeed /\ [][NextFeed]_vars

\* the strategy on two candle frames that do not change
NextAlign == StatArb_init \/ on_tick_candles \/ format_status \/ on_stop

SpecAlign == InitAlign /\ [][NextAlign]_vars

TypeOK ==
    /\ position_open \in BOOLEAN
    /\ pc \in {"new", "running", "stopped"}
    /\ open_count \in (0..MaxLayers) \X (0..MaxLayers)
    /\ scenario_step \in 0..3

----------------------------------------------------------------------------
(* Vocabulary of the properties *)

\* the latest tick read a z-score that is not null (NaN)
ZNotNull == last.zscore.k \in {"inf", "fin"}

\* the latest tick found both conversion rates and both mid prices
MarketDataAvailable ==
    /\ last.cr1 = SomeDecimal
    /\ last.cr2 = SomeDecimal
    /\ last.mp1 = SomeDecimal
    /\ last.mp2 = SomeDecimal

\* entry_threshold < z < sl_threshold, for the z-score of the latest tick
ZInEntryBand ==
    /\ last.zscore.k = "fin"
    /\ last.zscore.n > 2 * entry_threshold
    /\ last.zscore.n < 2 * sl_threshold

\* z < exit_threshold or z > entry_threshold, for the z-score of the latest tick
ZInCloseRange ==
    \/ last.zscore.k = "inf"
    \/ /\ last.zscore.k = "fin"
       /\ \/ last.zscore.n < 2 * exit_threshold
          \/ last.zscore.n > 2 * entry_threshold

IsOrder(o, pair, side, action) ==
    /\ o.pair = pair
    /\ o.side = side
    /\ o.position_action = action

\* the latest tick called buy()/sell() for this order
Submitted(pair, side, action) ==
    \E i \in 1..Len(last.submitted) : IsOrder(last.submitted[i], pair, side, action)

\* the orders of the latest tick are exactly the two open orders, leg 1 first
SubmittedOpenPair ==
    /\ Len(last.submitted) = 2
    /\ IsOrder(last.submitted[1], 1, "buy", "OPEN")
    /\ IsOrder(last.submitted[2], 2, "sell", "OPEN")

\* the latest tick ran to its end: no call of it raised
TickCompleted == last.kind = "completed"

----------------------------------------------------------------------------
(* C1 *)

\* C1: at most one paired position is ever open: an open order is submitted
\* only in a tick that began FLAT, and between two open orders accepted for
\* the same leg there is a close order of that leg (no leg ever has two open
\* orders and no close order in between), whatever the submissions do.
C1_SinglePosition ==
    /\ (Submitted(1, "buy", "OPEN") \/ Submitted(2, "sell", "OPEN")) => ~last.was_open
    /\ open_count[1] <= 1
    /\ open_count[2] <= 1

----------------------------------------------------------------------------
(* C2 *)

\* C2: in a tick that starts FLAT with a non-null z-score and market data
\* available, the open branch is taken if and only if
\* entry_threshold < z < sl_threshold (both bounds strict); when it is taken
\* and the tick runs to its end the position is OPEN and exactly the buy-to-open
\* on leg 1 and the sell-to-open on leg 2 were submitted; when it is not taken
\* the position stays FLAT and no order is submitted.
C2_EntryRule ==
    (/\ last.kind \in {"completed", "exception"}
     /\ ~last.was_open
     /\ ZNotNull
     /\ MarketDataAvailable)
    => /\ (last.decision = "OPEN_LONG1_SHORT2") <=> ZInEntryBand
       /\ Submitted(1, "buy", "OPEN") <=> ZInEntryBand
       /\ TickCompleted => ((position_open /\ SubmittedOpenPair) <=> ZInEntryBand)
       /\ ~ZInEntryBand => (~position_open /\ last.submitted = <<>>)

\* a tick that began FLAT with an in-band z-score opened the position
C2_Witness ==
    /\ TickCompleted
    /\ ~last.was_open
    /\ MarketDataAvailable
    /\ ZInEntryBand
    /\ position_open
    /\ SubmittedOpenPair

----------------------------------------------------------------------------
(* C3 *)

\* C3: in a tick that starts OPEN with a non-null z-score and market data
\* available, the close branch (CLOSE_BOTH) is taken if and only if
\* z < exit_threshold or z > entry_threshold, and a tick that takes it and runs
\* to its end leaves the position FLAT; in every other case the position stays
\* OPEN and no order is submitted (HOLD).
C3_CloseRule ==
    (/\ last.kind \in {"completed", "exception"}
     /\ last.was_open
     /\ ZNotNull
     /\ MarketDataAvailable)
    => /\ (last.decision = "CLOSE_BOTH") <=> ZInCloseRange
       /\ TickCompleted => (~position_open <=> ZInCloseRange)
       /\ ~ZInCloseRange =>
             /\ position_open
             /\ last.submitted = <<>>
             /\ last.decision = "HOLD"
       /\ ~Submitted(1, "buy", "OPEN") /\ ~Submitted(2, "sell", "OPEN")

\* a tick that began OPEN with z > entry_threshold closed the position
C3_Witness ==
    /\ TickCompleted
    /\ last.was_open
    /\ MarketDataAvailable
    /\ last.zscore.k = "fin"
    /\ last.zscore.n > 2 * entry_threshold
    /\ ~position_open
    /\ last.decision = "CLOSE_BOTH"
    /\ Submitted(1, "buy", "CLOSE")
    /\ Submitted(2, "sell", "CLOSE")

----------------------------------------------------------------------------
(* C4 *)

\* C4 as claimed: with thresholds entry=1, exit=0, sl=3, starting FLAT, feeding
\* z=1.5 transitions to OPEN with OPEN_LONG1_SHORT2; feeding z=2.0 next stays
\* OPEN (HOLD, no orders); feeding z=-0.5 next transitions to FLAT with
\* CLOSE_BOTH.
C4_Claimed ==
    /\ scenario_step = 1 => (position_open /\ last.decision = "OPEN_LONG1_SHORT2")
    /\ scenario_step = 2 =>
          /\ position_open
          /\ last.decision = "HOLD"
          /\ last.submitted = <<>>
    /\ scenario_step = 3 => (~position_open /\ last.decision = "CLOSE_BOTH")

\* C4 amended: with thresholds entry=1, exit=0, sl=3, starting FLAT, in ticks
\* that have market data and run to their end, feeding z=1.5 transitions to
\* OPEN with OPEN_LONG1_SHORT2; feeding z=2.0 next (2.0 > entry_threshold)
\* transitions to FLAT with CLOSE_BOTH; feeding z=-0.5 next stays FLAT (HOLD,
\* no orders).
C4_Scenario ==
    /\ scenario_step = 1 =>
          /\ position_open
          /\ last.decision = "OPEN_LONG1_SHORT2"
          /\ SubmittedOpenPair
    /\ scenario_step = 2 =>
          /\ ~position_open
          /\ last.was_open
          /\ last.decision = "CLOSE_BOTH"
    /\ scenario_step = 3 =>
          /\ ~position_open
          /\ ~last.was_open
          /\ last.decision = "HOLD"
          /\ last.submitted = <<>>

\* the three ticks of the scenario were fed, the last one being z = -0.5
C4_Witness ==
    /\ scenario_step = 3
    /\ last.zscore = Fin(0 - 1)
    /\ <<entry_threshold, exit_threshold, sl_threshold>> = <<1, 0, 3>>

----------------------------------------------------------------------------
(* C5 *)

\* C5: a tick whose z-score is null (NaN) submits no order and leaves the
\* position state and both stored order references unchanged, whatever the
\* position state is: null satisfies no threshold comparison.
C5_NullZNoAction ==
    [][last'.zscore = NaN =>
          /\ last'.submitted = <<>>
          /\ last'.decision \in {"NONE", "HOLD"}
          /\ position_open' = position_open
          /\ long_order_id' = long_order_id
          /\ short_order_id' = short_order_id
          /\ open_count' = open_count]_vars

\* a tick with a null z-score reached the comparisons while the position was OPEN
C5_Witness ==
    /\ last.zscore = NaN
    /\ TickCompleted
    /\ MarketDataAvailable
    /\ last.was_open
    /\ position_open

----------------------------------------------------------------------------
(* C6 *)

\* C6: state change and decision are atomic: at the end of every tick the
\* position state has changed in that tick if and only if the orders of a
\* dispatch were submitted in that tick (no orders with the flag unchanged, no
\* flipped flag without an order).
C6_Atomic ==
    last.kind # "init" => ((position_open # last.was_open) <=> (last.submitted # <<>>))

----------------------------------------------------------------------------
(* C7 *)

\* C7: a tick in which a conversion rate or a mid price is unavailable (None)
\* submits no order, leaves the position state unchanged and completes with a
\* warning, not with an exception.
C7_MissingDataShortCircuits ==
    (None \in {last.cr1, last.cr2, last.mp1, last.mp2})
    => /\ last.submitted = <<>>
       /\ position_open = last.was_open
       /\ last.kind = "warning"

----------------------------------------------------------------------------
(* C8 *)

\* C8: whenever the open branch is taken, the sell-to-open on leg 2 is
\* submitted in the same tick, whether the buy-to-open on leg 1 succeeded,
\* failed or raised.
C8_BothLegsSubmitted ==
    last.decision = "OPEN_LONG1_SHORT2" => Submitted(2, "sell", "OPEN")

----------------------------------------------------------------------------
(* C9 *)

\* the buy-to-close on leg 1 of the latest tick raised
LegOneCloseRaised ==
    \E i \in 1..Len(last.submitted) :
        /\ IsOrder(last.submitted[i], 1, "buy", "CLOSE")
        /\ last.submitted[i].outcome = "raised"

\* C9: on CLOSE_BOTH the close order of a leg is submitted if and only if the
\* open dispatch of the position being closed recorded an order reference for
\* that leg (for leg 2: in a dispatch that gets to leg 2); a leg never opened
\* in that position is skipped, also when an earlier position had a reference
\* for it.
C9_CloseOnlyOpenedLegs ==
    last.decision = "CLOSE_BOTH"
    => /\ Submitted(1, "buy", "CLOSE") <=> opened[1] # None
       /\ Submitted(2, "sell", "CLOSE") => opened[2] # None
       /\ ~LegOneCloseRaised => (Submitted(2, "sell", "CLOSE") <=> opened[2] # None)
       /\ Len(last.submitted) <= 2

\* a position whose leg 1 was never opened was closed by a leg-2 order alone,
\* an earlier, closed position having had a leg-1 reference
C9_Witness ==
    /\ last.decision = "CLOSE_BOTH"
    /\ TickCompleted
    /\ ~position_open
    /\ opened[1] = None
    /\ opened[2] # None
    /\ earlier[1] # None
    /\ ~Submitted(1, "buy", "CLOSE")
    /\ Submitted(2, "sell", "CLOSE")

----------------------------------------------------------------------------
(* C10 *)

MalformedThresholds ==
    \/ exit_threshold >= entry_threshold
    \/ entry_threshold >= sl_threshold

\* C10: a strategy with malformed thresholds (exit_threshold >= entry_threshold
\* or entry_threshold >= sl_threshold) is rejected at construction: it never
\* starts, never evaluates a tick and never submits an order.
C10_MalformedRejected ==
    MalformedThresholds
    => /\ pc = "new"
       /\ last.kind = "init"
       /\ open_count = <<0, 0>>

----------------------------------------------------------------------------
(* Vocabulary of the properties of calculate_spread_and_zscore *)

\* the latest call on the present candle frames returned a frame
Returned_df == df # NotCalled /\ df # None

\* the rolling standard deviation of row i of the latest call is zero or
\* undefined
StdZeroOrUndefined(i) ==
    \/ frame.rolling_std[i].k = "nan"
    \/ frame.rolling_std[i].num = 0

\* the zscore_length spreads that end at the last row of df are identical
LastWindowIdentical ==
    /\ Len(df) >= zscore_length
    /\ \A j \in (Len(df) - zscore_length + 1)..Len(df) :
          df[j].spread = df[Len(df)].spread

----------------------------------------------------------------------------
(* C11 *)

----------------------------------------------------------------------------
(* C12 *)

\* C12: calculate_spread_and_zscore returns None if and only if the merged
\* (aligned) frame has fewer than spread_length rows: None at
\* spread_length - 1 rows and below, a frame with all merged rows at
\* spread_length rows and above.
C12_MinimumHistory ==
    df # NotCalled =>
       /\ df = None <=> Len(frame.merged) < spread_length
       /\ Len(frame.merged) = spread_length - 1 => df = None
       /\ Len(frame.merged) = spread_length => (df # None /\ Len(df) = spread_length)
       /\ df # None => Len(df) = Len(frame.merged)

\* the call returned a frame of exactly spread_length rows, both candle
\* frames having these rows
C12_Witness ==
    /\ Returned_df
    /\ Len(df) = spread_length
    /\ Len(frame.merged) = spread_length
    /\ Len(candles_1) = spread_length
    /\ Len(candles_2) = spread_length

----------------------------------------------------------------------------
(* C13 *)

\* the sum of the spreads / of the squared spreads of the rows lo..hi of df
RECURSIVE SpreadSum(_, _)
SpreadSum(lo, hi) ==
    IF lo > hi THEN 0 ELSE df[hi].spread + SpreadSum(lo, hi - 1)

RECURSIVE SpreadSquareSum(_, _)
SpreadSquareSum(lo, hi) ==
    IF lo > hi THEN 0 ELSE df[hi].spread * df[hi].spread + SpreadSquareSum(lo, hi - 1)

\* row i of the latest call has the statistics of the zscore_length spreads
\* of the rows i - zscore_length + 1 .. i: the mean s / n, the sample standard
\* deviation sqrt((n * ss - s^2) / (n * (n - 1))), and the z-score
\* (spread - mean) / std, null if that is 0 / 0
TrailingStatistics(i) ==
    LET n == zscore_length
        s == SpreadSum(i - n + 1, i)
        ss == SpreadSquareSum(i - n + 1, i)
        m == frame.rolling_mean[i]
        sd == frame.rolling_std[i]
        z == df[i].z_score
        dev == n * df[i].spread - s
    IN  /\ m.k = "val"
        /\ m.num * n = s * m.den
        /\ sd.k = "val"
        /\ sd.num * (n * (n - 1)) = (n * ss - s * s) * sd.den
        /\ IF n * ss - s * s = 0
           THEN z = NaN
           ELSE /\ z.k = "root"
                /\ (z.n > 0) <=> (dev > 0)
                /\ (z.n < 0) <=> (dev < 0)
                /\ z.p * (n * (n * ss - s * s)) = z.q * (dev * dev * (n - 1))

\* C13: in every frame calculate_spread_and_zscore returns, for every
\* hedge_ratio, the rolling mean, the rolling std and z_score are null for each
\* of the first zscore_length - 1 rows; from the zscore_length-th row on they
\* are the statistics of exactly the zscore_length spreads that end at the row,
\* the row included, where spread = close_1 - close_2 * hedge_ratio (spread
\* and hedge_ratio in tenths).
C13_WarmUpAndWindow ==
    Returned_df =>
       \A i \in 1..Len(df) :
          /\ df[i].spread = 10 * df[i].close_1 - df[i].close_2 * hedge_ratio
          /\ IF i < zscore_length
             THEN /\ frame.rolling_mean[i].k = "nan"
                  /\ frame.rolling_std[i].k = "nan"
                  /\ df[i].z_score = NaN
             ELSE TrailingStatistics(i)

\* with a hedge_ratio that is not the one of the source, a frame with more
\* rows than the window, whose last window differs from the one before it, has
\* a z-score in its last row
C13_Witness ==
    /\ Returned_df
    /\ hedge_ratio # 3
    /\ Len(df) > zscore_length + 1
    /\ df[Len(df)].z_score.k = "root"
    /\ df[Len(df)].spread # df[Len(df) - zscore_length].spread
    /\ df[zscore_length - 1].z_score = NaN

----------------------------------------------------------------------------
(* C14 *)

\* the rows of the candle frame c up to the timestamp t: the history before
\* the later rows were appended
Until(c, t) == LET early(r) == r.timestamp <= t IN SelectSeq(c, early)

\* C14: no look-ahead.  For every earlier history of the two candle frames
\* (their rows up to a timestamp t, the later rows being the ones appended
\* since), the frame that calculate_spread_and_zscore returns on the earlier
\* history is the beginning of the frame it returns on the present one: the
\* spread, the timestamp and the z_score of every earlier row are the same, so
\* the values of row i depend on no row after i.
C14_NoLookAhead ==
    Returned_df =>
       \A n \in 1..Len(candles_1) :
          LET t == candles_1[n].timestamp
              before == calculate_spread_and_zscore(Until(candles_1, t),
                                                    Until(candles_2, t))
          IN  before.df # None =>
                 /\ Len(before.df) <= Len(df)
                 /\ SubSeq(df, 1, Len(before.df)) = before.df
                 /\ SubSeq(frame.rolling_mean, 1, Len(before.df)) = before.frame.rolling_mean
                 /\ SubSeq(frame.rolling_std, 1, Len(before.df)) = before.frame.rolling_std

\* the frame was computed on a history that has a row more than spread_length,
\* the z-score of the row before the last being set and unlike the last one
C14_Witness ==
    /\ Returned_df
    /\ Len(df) = spread_length + 1
    /\ df[spread_length].z_score.k = "root"
    /\ df[spread_length].z_score # df[Len(df)].z_score
    /\ df[spread_length].spread # df[Len(df)].spread

----------------------------------------------------------------------------
(* C15 *)

\* the timestamps of the rows of a frame
TimestampsOf(c) == {c[i].timestamp : i \in 1..Len(c)}

\* no two rows of the frame have the same timestamp
NoRepeatedTimestamp(c) ==
    \A i, j \in 1..Len(c) : c[i].timestamp = c[j].timestamp => i = j

ShorterLength == IF Len(candles_1) <= Len(candles_2) THEN Len(candles_1) ELSE Len(candles_2)

\* the pairs of a row of candles_1 and a row of candles_2 with one timestamp
MatchingPairs ==
    {p \in (1..Len(candles_1)) \X (1..Len(candles_2)) :
        candles_1[p[1]].timestamp = candles_2[p[2]].timestamp}

\* every row of the merged frame has a timestamp of both candle frames and
\* the closes of rows with that timestamp; every common timestamp has a row;
\* an empty candle frame gives an empty merged frame
ExactInnerJoin ==
    /\ \A i \in 1..Len(frame.merged) :
          \E p \in MatchingPairs :
             /\ frame.merged[i].timestamp = candles_1[p[1]].timestamp
             /\ frame.merged[i].close_1 = candles_1[p[1]].close
             /\ frame.merged[i].close_2 = candles_2[p[2]].close
    /\ TimestampsOf(frame.merged) = TimestampsOf(candles_1) \cap TimestampsOf(candles_2)
    /\ (candles_1 = <<>> \/ candles_2 = <<>>) => frame.merged = <<>>

\* C15 as claimed: the alignment is an exact-timestamp inner join (every output
\* timestamp occurs in both inputs, a timestamp of one series only is dropped,
\* an empty input gives an empty output) and the output has at most
\* min(len(series_1), len(series_2)) rows, also when a series repeats a
\* timestamp.
C15_Claimed ==
    df # NotCalled =>
       /\ ExactInnerJoin
       /\ Len(frame.merged) <= ShorterLength

\* C15 amended: the alignment is an exact-timestamp inner join (every output
\* timestamp occurs in both inputs, a timestamp of one series only is dropped,
\* an empty input gives an empty output) with one output row for every pair of
\* a row of series_1 and a row of series_2 that have the same timestamp; the
\* output has at most min(len(series_1), len(series_2)) rows when no series
\* repeats a timestamp.
C15_InnerJoin ==
    df # NotCalled =>
       /\ ExactInnerJoin
       /\ Len(frame.merged) = Cardinality(MatchingPairs)
       /\ (NoRepeatedTimestamp(candles_1) /\ NoRepeatedTimestamp(candles_2))
             => Len(frame.merged) <= ShorterLength

\* two frames without repeated timestamps were merged, a timestamp of each
\* being absent from the other and dropped
C15_Witness ==
    /\ df # NotCalled
    /\ NoRepeatedTimestamp(candles_1)
    /\ NoRepeatedTimestamp(candles_2)
    /\ TimestampsOf(candles_1) \ TimestampsOf(candles_2) # {}
    /\ TimestampsOf(candles_2) \ TimestampsOf(candles_1) # {}
    /\ frame.merged # <<>>
    /\ Len(frame.merged) < ShorterLength

----------------------------------------------------------------------------
(* C16 *)

\* the rows of the frame are in ascending order of their timestamp
Ascending(c) ==
    \A i, j \in 1..Len(c) : i < j => c[i].timestamp <= c[j].timestamp

\* the rows of the frame that was returned are in ascending order of their
\* timestamp, a datetime
AscendingDatetimes(d) ==
    \A i, j \in 1..Len(d) : i < j => d[i].timestamp[2] <= d[j].timestamp[2]

\* the last row of df, whose z_score on_tick reads as the current one, has the
\* greatest timestamp that the two candle frames have in common
LastRowIsLatest ==
    LET common == TimestampsOf(candles_1) \cap TimestampsOf(candles_2)
    IN  /\ df[Len(df)].timestamp[2] \in common
        /\ \A t \in common : t <= df[Len(df)].timestamp[2]
        /\ LastZScore(df) = <<df[Len(df)].z_score>>

\* C16 as claimed: the aligned output is in ascending timestamp order and its
\* last row, the one on_tick reads the current z-score from, has the greatest
\* common timestamp, whatever the order of the rows of the input series.
C16_Claimed ==
    df # NotCalled =>
       /\ Ascending(frame.merged)
       /\ Returned_df => (AscendingDatetimes(df) /\ LastRowIsLatest)

\* C16 amended: when series_1 (the left frame of the merge) is in ascending
\* timestamp order, the aligned output is in ascending timestamp order and its
\* last row, the one on_tick reads the current z-score from, has the greatest
\* common timestamp; series_2 need not be sorted.
C16_AscendingOutput ==
    (df # NotCalled /\ Ascending(candles_1)) =>
       /\ Ascending(frame.merged)
       /\ Returned_df => (AscendingDatetimes(df) /\ LastRowIsLatest)

\* a frame of rows with different timestamps was returned, candles_1 being in
\* ascending order and candles_2 not
C16_Witness ==
    /\ Returned_df
    /\ Ascending(candles_1)
    /\ ~Ascending(candles_2)
    /\ df[1].timestamp[2] < df[Len(df)].timestamp[2]

----------------------------------------------------------------------------
(* C17 *)

----------------------------------------------------------------------------
(* C18 *)

\* every order that the tick recorded as r submitted has this position_action
AllSubmitted(r, action) ==
    \A i \in 1..Len(r.submitted) : r.submitted[i].position_action = action

\* C18: the position state and the order references change only in the
\* decision step of a tick, and a tick takes at most one dispatch: it never
\* submits both an open and a close order and never more than two orders; a
\* step that is no tick (format_status, on_stop, the feeds, __init__) and a tick
\* that stops before the decision (candles not ready, not enough history) or
\* holds leave position state and order references unchanged and submit no
\* order.
C18_OneDispatchPerTick ==
    [][/\ (format_status \/ on_stop \/ candles_update \/ StatArb_init) =>
             UNCHANGED <<position_state, open_count, last>>
       /\ last' = last => UNCHANGED position_state
       /\ last' # last =>
             /\ Len(last'.submitted) <= 2
             /\ AllSubmitted(last', "OPEN") \/ AllSubmitted(last', "CLOSE")
             /\ last'.decision = "OPEN_LONG1_SHORT2" =>
                   (~position_open /\ AllSubmitted(last', "OPEN"))
             /\ last'.decision = "CLOSE_BOTH" =>
                   (position_open /\ AllSubmitted(last', "CLOSE"))
             /\ last'.decision \in {"NONE", "HOLD"} =>
                   /\ last'.submitted = <<>>
                   /\ UNCHANGED <<position_state, open_count>>
             /\ last'.kind \in {"candles_not_ready", "not_enough_data"} =>
                   last'.decision = "NONE"]_vars

\* the strategy was stopped, and its status shown, while the position that a
\* tick had opened with two orders was OPEN
C18_Witness ==
    /\ pc = "stopped"
    /\ Returned_df
    /\ position_open
    /\ long_order_id # None
    /\ short_order_id # None
    /\ last.decision = "OPEN_LONG1_SHORT2"
    /\ Len(last.submitted) = 2

----------------------------------------------------------------------------
(* C19 *)

\* exit_threshold <= z <= entry_threshold, for the z-score of the latest tick
ZWithinExitEntry ==
    /\ last.zscore.k = "fin"
    /\ last.zscore.n >= 2 * exit_threshold
    /\ last.zscore.n <= 2 * entry_threshold

\* C19: flapping.  Over consecutive ticks that have market data and a non-null
\* z-score and run to their end: a position that is OPEN is closed by the very
\* next such tick unless its z-score lies within
\* [exit_threshold, entry_threshold]; and every such tick whose z-score lies in
\* (entry_threshold, sl_threshold) takes a dispatch and flips the position
\* (OPEN to FLAT by CLOSE_BOTH, FLAT to OPEN by OPEN_LONG1_SHORT2), so the
\* position is never OPEN both before and after it.
C19_Flapping ==
    [][(/\ last' # last
        /\ TickCompleted'
        /\ ZNotNull')
       => /\ position_open => (position_open' <=> ZWithinExitEntry')
          /\ ZInEntryBand' =>
                /\ position_open' = ~position_open
                /\ last'.decision = IF position_open THEN "CLOSE_BOTH"
                                    ELSE "OPEN_LONG1_SHORT2"
                /\ ~(position_open /\ position_open')]_vars

\* under the thresholds of the source, an in-band tick (z = 1.5) opened a
\* position after an earlier position had been opened and closed
C19_Witness ==
    /\ TickCompleted
    /\ ZInEntryBand
    /\ ~last.was_open
    /\ position_open
    /\ earlier[1] # None
    /\ scenario_step = 1

----------------------------------------------------------------------------
(* C20 *)

\* z >= sl_threshold, for the z-score of the latest tick
ZAtOrBeyondSl ==
    \/ last.zscore = PosInf
    \/ /\ last.zscore.k = "fin"
       /\ last.zscore.n >= 2 * sl_threshold

\* C20: with exit_threshold < entry_threshold < sl_threshold, a tick that has
\* market data, runs to its end and has z >= sl_threshold ends FLAT: a position
\* that was OPEN is closed by CLOSE_BOTH, and from FLAT nothing is opened.
C20_StopLossEndsFlat ==
    (/\ exit_threshold < entry_threshold
     /\ entry_threshold < sl_threshold
     /\ TickCompleted
     /\ MarketDataAvailable
     /\ ZAtOrBeyondSl)
    => /\ ~position_open
       /\ ~Submitted(1, "buy", "OPEN")
       /\ ~Submitted(2, "sell", "OPEN")
       /\ last.decision = IF last.was_open THEN "CLOSE_BOTH" ELSE "HOLD"

\* a position that was OPEN was closed by a tick whose z-score is exactly
\* sl_threshold
C20_Witness ==
    /\ exit_threshold < entry_threshold
    /\ entry_threshold < sl_threshold
    /\ TickCompleted
    /\ last.zscore = Fin(2 * sl_threshold)
    /\ last.was_open
    /\ ~position_open
    /\ last.decision = "CLOSE_BOTH"

====
